---- MODULE Spec2Model ----
(***************************************************************************)
(* Model of the Order aggregate of internal/domain/order/entities/order.go *)
(*                                                                         *)
(* Go values are modelled with their sharing: an OrderItem lives in the    *)
(* heap and is referred to by a pointer, a slice is a window (array, len)  *)
(* on a backing array whose length is the slice's capacity.  The slice     *)
(* handed to NewOrder and the order's Items field are therefore two        *)
(* windows on the same array until append has to grow it.                  *)
(*                                                                         *)
(* Prices are float64 in the source; the model draws them from a small     *)
(* range of integers, on which float64 arithmetic is exact.  The CreatedAt *)
(* stamp of an OrderItem, which no operation reads, is left out.           *)
(*                                                                         *)
(* The second half models the user feature: the User entity, the users     *)
(* table behind gorm with its soft delete and its unique index, the two    *)
(* repositories, the use case, the create-user command handler and the     *)
(* controller.  A request is a goroutine that runs from one repository     *)
(* call to the next; the table is the only state requests share.  The     *)
(* requests of a run all fall within one tick of the clock: every          *)
(* time.Now() and every statement time of theirs is the value of now,      *)
(* except in SpecUpdate, where an update may come a tick later.            *)
(*                                                                         *)
(* SpecEntity has the methods of one User called in any order, and         *)
(* SpecAdmin a request going down the handler chain of an admin route.     *)
(***************************************************************************)
EXTENDS Integers, Sequences, FiniteSets, TLC

VARIABLES
    heap,        \* pointer -> OrderItem, the items allocated so far
    arrays,      \* array id -> backing array (a sequence of pointers)
    order,       \* the *Order under study, NoOrder before NewOrder succeeds
    callerItems, \* the slice the caller handed to NewOrder
    now,         \* the last value time.Now() returned
    op,          \* name of the last call
    args,        \* arguments of the last call
    err,         \* error returned by the last call
    users,       \* the rows of the users table, in primary-key order
    reqs,        \* slot -> the request running there, or the last one done
    uniqueIndex, \* whether the table has its unique index on email
    repository,  \* the UserRepository implementation the module is wired to
    user,        \* the *User under study, NoUser before NewUser succeeds
    call,        \* the last call made on that user: name, arguments, error
    admin        \* the request on an admin route and how far it has come

vars ==
    <<heap, arrays, order, callerItems, now, op, args, err, users, reqs,
      uniqueIndex, repository, user, call, admin>>

userVars == <<users, reqs, uniqueIndex, repository, user, call, admin>>

----------------------------------------------------------------------------
(* Bounds of the model *)

MaxTime == 1      \* the clock stops advancing here
MaxItems == 2     \* AddItem is not called on an order holding this many items
MaxUsers == 2     \* no creation request arrives once the table has this many rows

----------------------------------------------------------------------------
(* Constants of the program *)

OrderStatusPending == "pending"
OrderStatusConfirmed == "confirmed"
OrderStatusShipped == "shipped"
OrderStatusDelivered == "delivered"
OrderStatusCancelled == "cancelled"

OrderStatus ==
    {OrderStatusPending, OrderStatusConfirmed, OrderStatusShipped,
     OrderStatusDelivered, OrderStatusCancelled}

ErrInvalidUserID == "invalid user ID"
ErrEmptyOrder == "order must contain at least one item"
ErrOrderNotModifiable == "order cannot be modified in current status"
ErrOrderItemNotFound == "order item not found"
ErrInvalidOrderStatusTransition == "invalid order status transition"
ErrCannotCancelDeliveredOrder == "cannot cancel delivered order"

NoError == "nil"     \* a nil error
NilPtr == 0          \* a nil *OrderItem (the zero value of an array slot)
NilTime == -1        \* a nil *time.Time
NoOrder == [Status |-> "nil"]   \* a nil *Order

----------------------------------------------------------------------------
(* Inputs *)

UserIDs == {0, 42}
\* The <<productID, quantity, price>> triples handed to AddItem.
AddItemArgs == {<<7, 2, 5>>, <<9, -1, -2>>}
ItemIDs == {0, 1, 2}
CallerPrices == {3}

\* What time.Now() may return when its last value was t: the clock does not
\* run backwards.
Later(t) == {u \in {t, t + 1} : u <= MaxTime}

\* The OrderItem values a caller builds for NewOrder.
InitItems ==
    {[ID |-> 0, OrderID |-> 0, ProductID |-> 7, Quantity |-> 1, Price |-> 5],
     [ID |-> 1, OrderID |-> 0, ProductID |-> 9, Quantity |-> 3, Price |-> 2]}

RECURSIVE SeqsUpTo(_, _)
SeqsUpTo(S, n) ==
    IF n = 0 THEN {<<>>}
    ELSE LET shorter == SeqsUpTo(S, n - 1)
         IN shorter \cup {Append(l, x) : l \in shorter, x \in S}

\* The item lists handed to NewOrder, and the spare capacity of their slice.
InitLists == SeqsUpTo(InitItems, 2)
Spares == {0, 1}

NoArgs ==
    [userID |-> 0, items |-> <<>>, productID |-> 0, quantity |-> 0,
     price |-> 0, itemID |-> 0]

----------------------------------------------------------------------------
(* Slices and the heap *)

CallerArray == "caller"   \* the array behind the slice handed to NewOrder
GrownArray == "grown"     \* the array append allocated for the order

\* The elements a slice shows: the first len slots of its backing array.
Elems(s, arrs) == SubSeq(arrs[s.arr], 1, s.len)

Cap(s, arrs) == Len(arrs[s.arr])

\* The last slot of array a that a slice shows: the order's Items, the
\* caller's slice, or both when they share the array.
Reach(a, o, ci) ==
    LET mine == IF o.Items.arr = a THEN o.Items.len ELSE 0
        theirs == IF ci.arr = a THEN ci.len ELSE 0
    IN IF mine > theirs THEN mine ELSE theirs

\* No operation reads a slot beyond the length of every slice on its array
\* before append overwrites it: such a slot is recorded as nil.
Sweep(arrs, o, ci) ==
    [a \in DOMAIN arrs |->
        [k \in DOMAIN arrs[a] |->
            IF k <= Reach(a, o, ci) THEN arrs[a][k] ELSE NilPtr]]

\* The slots of all arrays in one sequence, the caller's array first.
Scan(arrs) ==
    arrs[CallerArray]
    \o (IF GrownArray \in DOMAIN arrs THEN arrs[GrownArray] ELSE <<>>)

\* The pointers of a scan, each once, in the order the scan first meets them.
RECURSIVE Distinct(_, _)
Distinct(scan, seen) ==
    IF scan = <<>> THEN seen
    ELSE IF Head(scan) = NilPtr \/ \E n \in 1..Len(seen) : seen[n] = Head(scan)
    THEN Distinct(Tail(scan), seen)
    ELSE Distinct(Tail(scan), Append(seen, Head(scan)))

\* The heap and the arrays after collection: dead slots swept, items no
\* slot refers to dropped.  The addresses of the live items are not
\* observable: they are renamed 1, 2, ... in the order of the scan.
Collect(hp, arrs0, o, ci) ==
    LET arrs == Sweep(arrs0, o, ci)
        live == Distinct(Scan(arrs), <<>>)
        rank == [p \in DOMAIN hp |->
                    IF \E n \in 1..Len(live) : live[n] = p
                    THEN CHOOSE n \in 1..Len(live) : live[n] = p
                    ELSE NilPtr]
    IN [heap |-> [n \in 1..Len(live) |-> hp[live[n]]],
        arrays |-> [a \in DOMAIN arrs |->
                       [k \in DOMAIN arrs[a] |->
                           IF arrs[a][k] = NilPtr THEN NilPtr
                           ELSE rank[arrs[a][k]]]]]

\* new(OrderItem): an address no live item has.
NewPtr(hp) == Cardinality(DOMAIN hp) + 1

\* The capacity growslice picks for a slice of pointers of capacity c that
\* has to hold needed elements (c < 256, the size classes fit these sizes).
GrowCap(c, needed) == IF needed > c + c THEN needed ELSE c + c

\* append(s, p): in place when the capacity allows, otherwise into a new
\* array, which the order alone refers to.
append(s, p, arrs) ==
    IF s.len < Cap(s, arrs)
    THEN [slice |-> [arr |-> s.arr, len |-> s.len + 1],
          arrays |-> [arrs EXCEPT ![s.arr][s.len + 1] = p]]
    ELSE LET old == Elems(s, arrs)
             grown == [k \in 1..GrowCap(Cap(s, arrs), s.len + 1) |->
                          IF k <= s.len THEN old[k]
                          ELSE IF k = s.len + 1 THEN p ELSE NilPtr]
         IN [slice |-> [arr |-> GrownArray, len |-> s.len + 1],
             arrays |-> [a \in {CallerArray, GrownArray} |->
                            IF a = GrownArray THEN grown ELSE arrs[CallerArray]]]

\* append(s[:i], s[i+1:]...) for the 1-based position i: the tail is copied
\* one slot down inside the same array, whose last slot keeps its old value.
appendTail(s, i, arrs) ==
    [slice |-> [arr |-> s.arr, len |-> s.len - 1],
     arrays |-> [arrs EXCEPT ![s.arr] =
                    [k \in DOMAIN arrs[s.arr] |->
                        IF k >= i /\ k < s.len THEN arrs[s.arr][k + 1]
                        ELSE arrs[s.arr][k]]]]

----------------------------------------------------------------------------
(* The Order entity *)

RECURSIVE rangeTotal(_, _, _)
rangeTotal(ptrs, hp, total) ==
    IF ptrs = <<>> THEN total
    ELSE rangeTotal(Tail(ptrs), hp,
                    total + hp[Head(ptrs)].Price * hp[Head(ptrs)].Quantity)

\* A faulty calculateTotal: the quantity is left out of the products.
RECURSIVE rangeTotalNoQuantity(_, _, _)
rangeTotalNoQuantity(ptrs, hp, total) ==
    IF ptrs = <<>> THEN total
    ELSE rangeTotalNoQuantity(Tail(ptrs), hp, total + hp[Head(ptrs)].Price)

calculateTotalNoQuantity(o, hp, arrs) ==
    [o EXCEPT !.TotalAmount = rangeTotalNoQuantity(Elems(o.Items, arrs), hp, 0)]

calculateTotal(o, hp, arrs) ==
    [o EXCEPT !.TotalAmount = rangeTotal(Elems(o.Items, arrs), hp, 0)]

\* A faulty NewOrder: the two checks are made in the other order.
NewOrderEmptyFirst(userID, items, hp, arrs, t1, t2) ==
    IF items.len = 0 THEN [order |-> NoOrder, err |-> ErrEmptyOrder]
    ELSE IF userID = 0 THEN [order |-> NoOrder, err |-> ErrInvalidUserID]
    ELSE [order |-> calculateTotal(
                        [ID |-> 0, UserID |-> userID,
                         Status |-> OrderStatusPending, TotalAmount |-> 0,
                         Items |-> items, CreatedAt |-> t1, UpdatedAt |-> t2,
                         DeletedAt |-> NilTime], hp, arrs),
          err |-> NoError]

NewOrder(userID, items, hp, arrs, t1, t2) ==
    IF userID = 0 THEN [order |-> NoOrder, err |-> ErrInvalidUserID]
    ELSE IF items.len = 0 THEN [order |-> NoOrder, err |-> ErrEmptyOrder]
    ELSE [order |-> calculateTotal(
                        [ID |-> 0, UserID |-> userID,
                         Status |-> OrderStatusPending, TotalAmount |-> 0,
                         Items |-> items, CreatedAt |-> t1, UpdatedAt |-> t2,
                         DeletedAt |-> NilTime], hp, arrs),
          err |-> NoError]

\* What a mutator returns when it fails: nothing is written.
Failed(o, hp, arrs, e) == [order |-> o, heap |-> hp, arrays |-> arrs, err |-> e]

\* A faulty AddItem: the status is not checked.
AddItemAnyStatus(o, hp, arrs, productID, quantity, price, t) ==
    LET p == NewPtr(hp)
        item == [ID |-> 0, OrderID |-> 0, ProductID |-> productID,
                 Quantity |-> quantity, Price |-> price]
        hp2 == [q \in DOMAIN hp \cup {p} |-> IF q = p THEN item ELSE hp[q]]
        ap == append(o.Items, p, arrs)
        o2 == calculateTotal([o EXCEPT !.Items = ap.slice], hp2, ap.arrays)
    IN [order |-> [o2 EXCEPT !.UpdatedAt = t], heap |-> hp2,
        arrays |-> ap.arrays, err |-> NoError]

AddItem(o, hp, arrs, productID, quantity, price, t) ==
    IF o.Status # OrderStatusPending
    THEN Failed(o, hp, arrs, ErrOrderNotModifiable)
    ELSE LET p == NewPtr(hp)
             item == [ID |-> 0, OrderID |-> 0, ProductID |-> productID,
                      Quantity |-> quantity, Price |-> price]
             hp2 == [q \in DOMAIN hp \cup {p} |-> IF q = p THEN item ELSE hp[q]]
             ap == append(o.Items, p, arrs)
             o2 == calculateTotal([o EXCEPT !.Items = ap.slice], hp2, ap.arrays)
         IN [order |-> [o2 EXCEPT !.UpdatedAt = t], heap |-> hp2,
             arrays |-> ap.arrays, err |-> NoError]

\* The positions of o.Items whose item has the given ID, in 1-based indices.
Matches(o, hp, arrs, itemID) ==
    {i \in 1..o.Items.len : hp[Elems(o.Items, arrs)[i]].ID = itemID}

Min(S) == CHOOSE i \in S : \A j \in S : i <= j

\* A faulty RemoveItem: the last matching item is the one removed.
RemoveItemLastMatch(o, hp, arrs, itemID, t) ==
    IF o.Status # OrderStatusPending
    THEN Failed(o, hp, arrs, ErrOrderNotModifiable)
    ELSE IF Matches(o, hp, arrs, itemID) = {}
    THEN Failed(o, hp, arrs, ErrOrderItemNotFound)
    ELSE LET M == Matches(o, hp, arrs, itemID)
             last == CHOOSE i \in M : \A j \in M : j <= i
             ap == appendTail(o.Items, last, arrs)
             o2 == calculateTotal([o EXCEPT !.Items = ap.slice], hp, ap.arrays)
         IN [order |-> [o2 EXCEPT !.UpdatedAt = t], heap |-> hp,
             arrays |-> ap.arrays, err |-> NoError]

\* A faulty RemoveItem: UpdatedAt is stamped before the search.
RemoveItemTouch(o, hp, arrs, itemID, t) ==
    IF o.Status # OrderStatusPending
    THEN Failed(o, hp, arrs, ErrOrderNotModifiable)
    ELSE IF Matches(o, hp, arrs, itemID) = {}
    THEN Failed([o EXCEPT !.UpdatedAt = t], hp, arrs, ErrOrderItemNotFound)
    ELSE LET ap == appendTail(o.Items, Min(Matches(o, hp, arrs, itemID)), arrs)
             o2 == calculateTotal([o EXCEPT !.Items = ap.slice], hp, ap.arrays)
         IN [order |-> [o2 EXCEPT !.UpdatedAt = t], heap |-> hp,
             arrays |-> ap.arrays, err |-> NoError]

RemoveItem(o, hp, arrs, itemID, t) ==
    IF o.Status # OrderStatusPending
    THEN Failed(o, hp, arrs, ErrOrderNotModifiable)
    ELSE IF Matches(o, hp, arrs, itemID) = {}
    THEN Failed(o, hp, arrs, ErrOrderItemNotFound)
    ELSE LET ap == appendTail(o.Items, Min(Matches(o, hp, arrs, itemID)), arrs)
             o2 == calculateTotal([o EXCEPT !.Items = ap.slice], hp, ap.arrays)
         IN [order |-> [o2 EXCEPT !.UpdatedAt = t], heap |-> hp,
             arrays |-> ap.arrays, err |-> NoError]

\* A faulty Confirm: an order without items is refused.
ConfirmNonEmpty(o, t) ==
    IF o.Status # OrderStatusPending
    THEN [order |-> o, err |-> ErrInvalidOrderStatusTransition]
    ELSE IF o.Items.len = 0
    THEN [order |-> o, err |-> ErrEmptyOrder]
    ELSE [order |-> [o EXCEPT !.Status = OrderStatusConfirmed, !.UpdatedAt = t],
          err |-> NoError]

\* A faulty Confirm: UpdatedAt is stamped before the status is checked.
ConfirmTouch(o, t) ==
    IF o.Status # OrderStatusPending
    THEN [order |-> [o EXCEPT !.UpdatedAt = t],
          err |-> ErrInvalidOrderStatusTransition]
    ELSE [order |-> [o EXCEPT !.Status = OrderStatusConfirmed, !.UpdatedAt = t],
          err |-> NoError]

Confirm(o, t) ==
    IF o.Status # OrderStatusPending
    THEN [order |-> o, err |-> ErrInvalidOrderStatusTransition]
    ELSE [order |-> [o EXCEPT !.Status = OrderStatusConfirmed, !.UpdatedAt = t],
          err |-> NoError]

\* A faulty Ship: a pending order is shipped too.
ShipFromPending(o, t) ==
    IF o.Status \notin {OrderStatusPending, OrderStatusConfirmed}
    THEN [order |-> o, err |-> ErrInvalidOrderStatusTransition]
    ELSE [order |-> [o EXCEPT !.Status = OrderStatusShipped, !.UpdatedAt = t],
          err |-> NoError]

Ship(o, t) ==
    IF o.Status # OrderStatusConfirmed
    THEN [order |-> o, err |-> ErrInvalidOrderStatusTransition]
    ELSE [order |-> [o EXCEPT !.Status = OrderStatusShipped, !.UpdatedAt = t],
          err |-> NoError]

\* A faulty Deliver: a cancelled order is delivered too.
DeliverFromCancelled(o, t) ==
    IF o.Status \notin {OrderStatusShipped, OrderStatusCancelled}
    THEN [order |-> o, err |-> ErrInvalidOrderStatusTransition]
    ELSE [order |-> [o EXCEPT !.Status = OrderStatusDelivered, !.UpdatedAt = t],
          err |-> NoError]

Deliver(o, t) ==
    IF o.Status # OrderStatusShipped
    THEN [order |-> o, err |-> ErrInvalidOrderStatusTransition]
    ELSE [order |-> [o EXCEPT !.Status = OrderStatusDelivered, !.UpdatedAt = t],
          err |-> NoError]

\* A faulty Cancel: a cancelled order is refused.
CancelOnce(o, t) ==
    IF o.Status \in {OrderStatusDelivered, OrderStatusCancelled}
    THEN [order |-> o, err |-> ErrCannotCancelDeliveredOrder]
    ELSE [order |-> [o EXCEPT !.Status = OrderStatusCancelled, !.UpdatedAt = t],
          err |-> NoError]

\* A faulty Cancel: a shipped order is refused like a delivered one.
CancelShippedRefused(o, t) ==
    IF o.Status \in {OrderStatusDelivered, OrderStatusShipped}
    THEN [order |-> o, err |-> ErrCannotCancelDeliveredOrder]
    ELSE [order |-> [o EXCEPT !.Status = OrderStatusCancelled, !.UpdatedAt = t],
          err |-> NoError]

Cancel(o, t) ==
    IF o.Status = OrderStatusDelivered
    THEN [order |-> o, err |-> ErrCannotCancelDeliveredOrder]
    ELSE [order |-> [o EXCEPT !.Status = OrderStatusCancelled, !.UpdatedAt = t],
          err |-> NoError]

IsDeleted(o) == o.DeletedAt # NilTime

\* A faulty MarkAsDeleted: UpdatedAt is not stamped.
MarkAsDeletedNoStamp(o, t) == [o EXCEPT !.DeletedAt = t]

\* A faulty MarkAsDeleted: a second call restores the order.
MarkAsDeletedToggle(o, t) ==
    IF o.DeletedAt # NilTime
    THEN [o EXCEPT !.DeletedAt = NilTime, !.UpdatedAt = t]
    ELSE [o EXCEPT !.DeletedAt = t, !.UpdatedAt = t]

MarkAsDeleted(o, t) == [o EXCEPT !.DeletedAt = t, !.UpdatedAt = t]

----------------------------------------------------------------------------
(* The User entity, internal/domain/user/entities *)

ErrInvalidEmail == "email is required"
ErrInvalidName == "name is required"
ErrInvalidPassword == "password is required"
ErrUserNotFound == "user not found"
ErrEmailExists == "user with this email already exists"

NoUser == [Email |-> "nil"]     \* a nil *User

NewUserPasswordFirst(email, name, password, t1, t2) ==
    IF password = "" THEN [user |-> NoUser, err |-> ErrInvalidPassword]
    ELSE IF email = "" THEN [user |-> NoUser, err |-> ErrInvalidEmail]
    ELSE IF name = "" THEN [user |-> NoUser, err |-> ErrInvalidName]
    ELSE [user |-> [ID |-> 0, Email |-> email, Name |-> name,
                    Password |-> password, CreatedAt |-> t1, UpdatedAt |-> t2,
                    DeletedAt |-> NilTime],
          err |-> NoError]

\* NewUser, t1 and t2 being what time.Now() returns for CreatedAt and UpdatedAt.
NewUser(email, name, password, t1, t2) ==
    IF email = "" THEN [user |-> NoUser, err |-> ErrInvalidEmail]
    ELSE IF name = "" THEN [user |-> NoUser, err |-> ErrInvalidName]
    ELSE IF password = "" THEN [user |-> NoUser, err |-> ErrInvalidPassword]
    ELSE [user |-> [ID |-> 0, Email |-> email, Name |-> name,
                    Password |-> password, CreatedAt |-> t1, UpdatedAt |-> t2,
                    DeletedAt |-> NilTime],
          err |-> NoError]

UserIsDeleted(u) == u.DeletedAt # NilTime

UserMarkAsDeleted(u, t) == [u EXCEPT !.DeletedAt = t, !.UpdatedAt = t]

ActivateStampOnly(u, t) == [u EXCEPT !.UpdatedAt = t]

Activate(u, t) == [u EXCEPT !.DeletedAt = NilTime, !.UpdatedAt = t]

ChangePassword(u, newPassword, t) ==
    IF newPassword = "" THEN [user |-> u, err |-> ErrInvalidPassword]
    ELSE [user |-> [u EXCEPT !.Password = newPassword, !.UpdatedAt = t],
          err |-> NoError]

UpdateInfoAssigns(u, name, email, t) ==
    [u EXCEPT !.Name = name, !.Email = email, !.UpdatedAt = t]

UpdateInfo(u, name, email, t) ==
    [u EXCEPT !.Name = IF name # "" THEN name ELSE @,
              !.Email = IF email # "" THEN email ELSE @,
              !.UpdatedAt = t]

----------------------------------------------------------------------------
(* The users table and the two repositories over it *)

\* What the database driver returns when a statement fails, and when an
\* insert breaks the unique index on email.
ErrDB == "database error"
ErrDuplicateEntry == "duplicate entry for key email"

RepositoryGorm == "userRepository"        \* db.Save on Update
RepositoryGen == "userRepositoryGen"      \* Where(id).Updates on Update
Repositories == {RepositoryGorm, RepositoryGen}

\* gorm.DeletedAt is a sql.NullTime.
NullTime == [Time |-> 0, Valid |-> FALSE]

ToDomainEntity(m) ==
    [ID |-> m.ID, Email |-> m.Email, Name |-> m.Name, Password |-> m.Password,
     CreatedAt |-> m.CreatedAt, UpdatedAt |-> m.UpdatedAt,
     DeletedAt |-> IF m.DeletedAt.Valid THEN m.DeletedAt.Time ELSE NilTime]

NewUserModelFromEntity(u) ==
    [ID |-> u.ID, Email |-> u.Email, Name |-> u.Name, Password |-> u.Password,
     CreatedAt |-> u.CreatedAt, UpdatedAt |-> u.UpdatedAt,
     DeletedAt |-> IF u.DeletedAt # NilTime
                   THEN [Time |-> u.DeletedAt, Valid |-> TRUE]
                   ELSE NullTime]

\* The rows a query would see without the soft delete.
Unscoped(tbl) == 1..Len(tbl)

\* The rows a query sees: gorm adds "deleted_at IS NULL" to every query on a
\* model that has a gorm.DeletedAt field.
Live(tbl) == {i \in 1..Len(tbl) : ~tbl[i].DeletedAt.Valid}

\* First orders by primary key; a row's ID is its position in the table.
First(tbl, S) ==
    IF S = {} THEN [user |-> NoUser, err |-> ErrUserNotFound]
    ELSE [user |-> ToDomainEntity(tbl[Min(S)]), err |-> NoError]

GetByID(tbl, id) == First(tbl, {i \in Live(tbl) : tbl[i].ID = id})

GetByEmail(tbl, email) == First(tbl, {i \in Live(tbl) : tbl[i].Email = email})

RECURSIVE Find(_, _)
Find(tbl, i) ==
    IF i > Len(tbl) THEN <<>>
    ELSE (IF i \in Live(tbl) THEN <<ToDomainEntity(tbl[i])>> ELSE <<>>)
         \o Find(tbl, i + 1)

\* Limit(limit).Offset(offset).Find
GetAll(tbl, limit, offset) ==
    LET found == Find(tbl, 1)
        from == offset + 1
        to == IF offset + limit < Len(found) THEN offset + limit ELSE Len(found)
    IN [users |-> SubSeq(found, from, to), err |-> NoError]

\* An insert under a unique index that would leave soft-deleted rows out.
CreateUniqueAmongLive(tbl, u, unique) ==
    LET m == [NewUserModelFromEntity(u) EXCEPT !.ID = Len(tbl) + 1]
    IN IF unique /\ \E i \in Live(tbl) : tbl[i].Email = m.Email
       THEN [table |-> tbl, user |-> u, err |-> ErrDuplicateEntry]
       ELSE [table |-> Append(tbl, m),
             user |-> [u EXCEPT !.ID = m.ID], err |-> NoError]

\* An insert that would check the email again, under a lock on the table.
CreateIfAbsent(tbl, u, unique) ==
    LET m == [NewUserModelFromEntity(u) EXCEPT !.ID = Len(tbl) + 1]
    IN IF \E i \in Live(tbl) : tbl[i].Email = m.Email
       THEN [table |-> tbl, user |-> u, err |-> ErrEmailExists]
       ELSE [table |-> Append(tbl, m),
             user |-> [u EXCEPT !.ID = m.ID], err |-> NoError]

\* The unique index on email covers every row, soft-deleted ones included.
Create(tbl, u, unique) ==
    LET m == [NewUserModelFromEntity(u) EXCEPT !.ID = Len(tbl) + 1]
    IN IF unique /\ \E i \in 1..Len(tbl) : tbl[i].Email = m.Email
       THEN [table |-> tbl, user |-> u, err |-> ErrDuplicateEntry]
       ELSE [table |-> Append(tbl, m),
             user |-> [u EXCEPT !.ID = m.ID], err |-> NoError]

\* Updates writes the non-zero fields of the model, Save writes them all.
NonZero(new, old, zero) == IF new = zero THEN old ELSE new

\* An update that would write the name column alone.
UpdateNameOnly(tbl, u, impl, unique, t) ==
    [table |-> [i \in 1..Len(tbl) |->
                   IF i \in Live(tbl) /\ tbl[i].ID = u.ID
                   THEN [tbl[i] EXCEPT !.Name = u.Name, !.UpdatedAt = t]
                   ELSE tbl[i]],
     err |-> NoError]

\* Both run UPDATE ... WHERE id = ? AND deleted_at IS NULL, stamping
\* updated_at with the time t of the statement.  When that touches no row
\* Updates is done; Save goes on to INSERT ... ON DUPLICATE KEY UPDATE, which
\* overwrites the row holding the primary key, a soft-deleted one.  Rows are
\* never removed, so the row of a fetched user is always there.
Update(tbl, u, impl, unique, t) ==
    LET m == [NewUserModelFromEntity(u) EXCEPT !.UpdatedAt = t]
        live == {i \in Live(tbl) : tbl[i].ID = m.ID}
        hit == IF impl = RepositoryGorm
               THEN {i \in 1..Len(tbl) : tbl[i].ID = m.ID}
               ELSE live
        written(old) ==
            IF impl = RepositoryGorm THEN m
            ELSE [ID |-> old.ID,
                  Email |-> NonZero(m.Email, old.Email, ""),
                  Name |-> NonZero(m.Name, old.Name, ""),
                  Password |-> NonZero(m.Password, old.Password, ""),
                  CreatedAt |-> m.CreatedAt,
                  UpdatedAt |-> m.UpdatedAt,
                  DeletedAt |-> NonZero(m.DeletedAt, old.DeletedAt, NullTime)]
    IN IF hit = {} THEN [table |-> tbl, err |-> NoError]
       ELSE IF unique /\ \E i \in 1..Len(tbl) :
                            tbl[i].ID # m.ID /\ tbl[i].Email = m.Email
       THEN [table |-> tbl, err |-> ErrDuplicateEntry]
       ELSE [table |-> [i \in 1..Len(tbl) |->
                           IF i \in hit THEN written(tbl[i]) ELSE tbl[i]],
             err |-> NoError]

\* Delete on a model with gorm.DeletedAt is an UPDATE of deleted_at; it
\* reports no error when no row matches.
Delete(tbl, id, t) ==
    [table |-> [i \in 1..Len(tbl) |->
                   IF i \in Live(tbl) /\ tbl[i].ID = id
                   THEN [tbl[i] EXCEPT !.DeletedAt = [Time |-> t, Valid |-> TRUE]]
                   ELSE tbl[i]],
     err |-> NoError]

----------------------------------------------------------------------------
(* Validation of a creation request, and the controller's responses *)

\* binding:"required" on the three fields of the request body.
ErrBinding == "Field validation failed on the 'required' tag"

ShouldBindJSON(in) ==
    IF in.email = "" \/ in.name = "" \/ in.password = ""
    THEN ErrBinding ELSE NoError

\* The check userUseCase.CreateUser makes before it looks the email up.
CreateUserValidation(in) ==
    IF in.email = "" \/ in.name = "" \/ in.password = ""
    THEN ErrInvalidEmail ELSE NoError

MinPasswordLen == 8

validateCommandAnyLength(cmd) == NoError

validateCommand(cmd) ==
    IF Len(cmd.password) < MinPasswordLen THEN ErrInvalidPassword ELSE NoError

StatusOK == 200
StatusCreated == 201
StatusNoContent == 204
StatusBadRequest == 400
StatusUnauthorized == 401
StatusForbidden == 403
StatusNotFound == 404
StatusConflict == 409
StatusInternalServerError == 500

NoResponse == [status |-> 0]
NoBody == [null |-> TRUE]

\* gin.H{"error": err.Error()}
ErrorBody(e) == [error |-> e]

\* encoding/json on a *User: the struct has no json tags, so every exported
\* field is written under its own name.
JSONUser(u) ==
    [ID |-> u.ID, Email |-> u.Email, Name |-> u.Name, Password |-> u.Password,
     CreatedAt |-> u.CreatedAt, UpdatedAt |-> u.UpdatedAt,
     DeletedAt |-> u.DeletedAt]

JSONUsers(list) == [i \in 1..Len(list) |-> JSONUser(list[i])]

\* A controller that would answer 400 for what the use case refuses.
CreateUserResponseBadRequest(u, e) ==
    IF e = ErrEmailExists
    THEN [status |-> StatusConflict, body |-> ErrorBody(e)]
    ELSE IF e \in {ErrInvalidEmail, ErrInvalidName, ErrInvalidPassword}
    THEN [status |-> StatusBadRequest, body |-> ErrorBody(e)]
    ELSE IF e # NoError
    THEN [status |-> StatusInternalServerError, body |-> ErrorBody(e)]
    ELSE [status |-> StatusCreated, body |-> JSONUser(u)]

CreateUserResponse(u, e) ==
    IF e = ErrEmailExists
    THEN [status |-> StatusConflict, body |-> ErrorBody(e)]
    ELSE IF e # NoError
    THEN [status |-> StatusInternalServerError, body |-> ErrorBody(e)]
    ELSE [status |-> StatusCreated, body |-> JSONUser(u)]

\* GetUser and UpdateUser answer alike.
GetUserResponse(u, e) ==
    IF e = ErrUserNotFound
    THEN [status |-> StatusNotFound, body |-> ErrorBody(e)]
    ELSE IF e # NoError
    THEN [status |-> StatusInternalServerError, body |-> ErrorBody(e)]
    ELSE [status |-> StatusOK, body |-> JSONUser(u)]

GetUsersResponse(list, limit, offset, e) ==
    IF e # NoError
    THEN [status |-> StatusInternalServerError, body |-> ErrorBody(e)]
    ELSE [status |-> StatusOK,
          body |-> [users |-> JSONUsers(list), limit |-> limit,
                    offset |-> offset, count |-> Len(list)]]

DeleteUserResponse(e) ==
    IF e = ErrUserNotFound
    THEN [status |-> StatusNotFound, body |-> ErrorBody(e)]
    ELSE IF e # NoError
    THEN [status |-> StatusInternalServerError, body |-> ErrorBody(e)]
    ELSE [status |-> StatusNoContent, body |-> NoBody]

----------------------------------------------------------------------------
(* Requests *)

ControllerCreateUser == "UserController.CreateUser"
UseCaseCreateUser == "userUseCase.CreateUser"
CommandHandle == "CreateUserCommandHandler.Handle"
ControllerGetUser == "UserController.GetUser"
ControllerGetUsers == "UserController.GetUsers"
ControllerUpdateUser == "UserController.UpdateUser"
ControllerDeleteUser == "UserController.DeleteUser"

CreateKinds == {ControllerCreateUser, UseCaseCreateUser, CommandHandle}

\* The requests in flight: the sequential runs use the first slot alone.
Slots == {"r1", "r2"}
Sequential == {"r1"}

\* <<email, name, password>> of a creation request.
CreateUserArgs ==
    {<<"a@x.com", "Ann", "12345678">>, <<"b@x.com", "Bob", "1234567">>,
     <<"", "Ann", "12345678">>, <<"a@x.com", "", "12345678">>,
     <<"a@x.com", "Ann", "">>}
ConcurrentCreateArgs ==
    {<<"a@x.com", "Ann", "12345678">>, <<"b@x.com", "Bob", "1234567">>}
\* <<email, name>> of an update request.
UpdateUserArgs == {<<"", "Zoe">>, <<"b@x.com", "">>}
\* With the update that names nothing and the one that names both.
AllUpdateArgs == UpdateUserArgs \cup {<<"", "">>, <<"b@x.com", "Zoe">>}
IDs == {1, 2}
\* <<limit, offset>> of a listing; the controller's defaults come first.
Pages == {<<10, 0>>, <<1, 1>>}
\* The passwords a stored user could have had instead.
Passwords == {"12345678", "1234567", "secret"}

NoInput ==
    [id |-> 0, email |-> "", name |-> "", password |-> "", limit |-> 0,
     offset |-> 0]

\* A request: the method called, its input, the position of its goroutine
\* (pc), the user it holds, the repository calls it has made with what each
\* returned, what the use case returned (user or list, err) and what the
\* controller answered.
NoRequest ==
    [kind |-> "none", pc |-> "idle", in |-> NoInput, user |-> NoUser,
     list |-> <<>>, err |-> NoError, calls |-> <<>>, resp |-> NoResponse]

Called(r, name, e) ==
    [r EXCEPT !.calls = Append(@, [name |-> name, err |-> e])]

\* What a statement may return: its result, or a failure of the database.
Outcomes(res) == {res.err, ErrDB}

----------------------------------------------------------------------------
(* The calls made on the order *)

\* The last call on the user under study, with what IsDeleted said before it.
NoCall == [op |-> "none", email |-> "", name |-> "", password |-> "",
           wasDeleted |-> FALSE, err |-> NoError]

\* registerAdminRoutes has not run yet.
NoAdminRoutes == [pc |-> "start"]

\* Nothing has been called yet: no order, an empty users table, no request.
Start ==
    /\ heap = <<>>
    /\ arrays = <<>>
    /\ order = NoOrder
    /\ callerItems = [arr |-> CallerArray, len |-> 0]
    /\ now = 0
    /\ op = "none"
    /\ args = NoArgs
    /\ err = NoError
    /\ users = <<>>
    /\ reqs = [s \in Slots |-> NoRequest]
    /\ user = NoUser
    /\ call = NoCall
    /\ admin = NoAdminRoutes

Init ==
    /\ Start
    /\ uniqueIndex = TRUE
    /\ repository = RepositoryGorm

\* The caller builds the items, one heap object each, in a slice with
\* spare extra slots of capacity, and hands the slice to NewOrder.
CallNewOrder ==
    /\ order = NoOrder
    /\ \E userID \in UserIDs, list \in InitLists, spare \in Spares :
       \E t1 \in Later(now) : \E t2 \in Later(t1) :
          LET hp == [p \in 1..Len(list) |-> list[p]]
              arrs == [a \in {CallerArray} |->
                          [k \in 1..(Len(list) + spare) |->
                              IF k <= Len(list) THEN k ELSE NilPtr]]
              items == [arr |-> CallerArray, len |-> Len(list)]
              r == NewOrder(userID, items, hp, arrs, t1, t2)
          IN /\ order' = r.order
             /\ err' = r.err
             /\ IF r.err = NoError
                THEN heap' = hp /\ arrays' = arrs /\ callerItems' = items
                ELSE UNCHANGED <<heap, arrays, callerItems>>
             /\ now' = IF r.err = NoError THEN t2 ELSE now
             /\ op' = "NewOrder"
             /\ args' = [NoArgs EXCEPT !.userID = userID, !.items = list]
    /\ UNCHANGED userVars

CallAddItem ==
    /\ order # NoOrder
    /\ order.Items.len < MaxItems
    /\ \E a \in AddItemArgs, t \in Later(now) :
          LET productID == a[1]
              quantity == a[2]
              price == a[3]
              r == AddItem(order, heap, arrays, productID, quantity, price, t)
              c == Collect(r.heap, r.arrays, r.order, callerItems)
          IN /\ order' = r.order
             /\ err' = r.err
             /\ arrays' = c.arrays
             /\ heap' = c.heap
             /\ now' = IF r.err = NoError THEN t ELSE now
             /\ op' = "AddItem"
             /\ args' = [NoArgs EXCEPT !.productID = productID,
                                       !.quantity = quantity, !.price = price]
             /\ UNCHANGED callerItems
    /\ UNCHANGED userVars

CallRemoveItem ==
    /\ order # NoOrder
    /\ \E itemID \in ItemIDs, t \in Later(now) :
          LET r == RemoveItem(order, heap, arrays, itemID, t)
              c == Collect(r.heap, r.arrays, r.order, callerItems)
          IN /\ order' = r.order
             /\ err' = r.err
             /\ arrays' = c.arrays
             /\ heap' = c.heap
             /\ now' = IF r.err = NoError THEN t ELSE now
             /\ op' = "RemoveItem"
             /\ args' = [NoArgs EXCEPT !.itemID = itemID]
             /\ UNCHANGED callerItems
    /\ UNCHANGED userVars

\* A call of one of the status operations, r being what it returns.
StatusCall(name, r, t) ==
    /\ order' = r.order
    /\ err' = r.err
    /\ now' = IF r.err = NoError THEN t ELSE now
    /\ op' = name
    /\ args' = NoArgs
    /\ UNCHANGED <<heap, arrays, callerItems>>
    /\ UNCHANGED userVars

CallConfirm ==
    /\ order # NoOrder
    /\ \E t \in Later(now) : StatusCall("Confirm", Confirm(order, t), t)

CallShip ==
    /\ order # NoOrder
    /\ \E t \in Later(now) : StatusCall("Ship", Ship(order, t), t)

CallDeliver ==
    /\ order # NoOrder
    /\ \E t \in Later(now) : StatusCall("Deliver", Deliver(order, t), t)

CallCancel ==
    /\ order # NoOrder
    /\ \E t \in Later(now) : StatusCall("Cancel", Cancel(order, t), t)

CallMarkAsDeleted ==
    /\ order # NoOrder
    /\ \E t \in Later(now) :
          StatusCall("MarkAsDeleted",
                     [order |-> MarkAsDeleted(order, t), err |-> NoError], t)

Next ==
    \/ CallNewOrder
    \/ CallAddItem
    \/ CallRemoveItem
    \/ CallConfirm
    \/ CallShip
    \/ CallDeliver
    \/ CallCancel
    \/ CallMarkAsDeleted

Spec == Init /\ [][Next]_vars

----------------------------------------------------------------------------
(* The caller keeps the slice it handed to NewOrder and goes on using it *)

\* items[i] = items[j]
CallerAssign ==
    /\ order # NoOrder
    /\ \E i \in 1..callerItems.len, j \in 1..callerItems.len :
          /\ i # j
          /\ LET arrs == [arrays EXCEPT ![callerItems.arr][i] =
                             arrays[callerItems.arr][j]]
                 c == Collect(heap, arrs, order, callerItems)
             IN /\ arrays' = c.arrays
                /\ heap' = c.heap
          /\ op' = "CallerAssign"
          /\ args' = NoArgs
          /\ err' = NoError
          /\ UNCHANGED <<order, callerItems, now>>
    /\ UNCHANGED userVars

\* items[i].Price = price
CallerSetPrice ==
    /\ order # NoOrder
    /\ \E i \in 1..callerItems.len, price \in CallerPrices :
          /\ heap' = [heap EXCEPT ![arrays[callerItems.arr][i]].Price = price]
          /\ op' = "CallerSetPrice"
          /\ args' = [NoArgs EXCEPT !.price = price]
          /\ err' = NoError
          /\ UNCHANGED <<arrays, order, callerItems, now>>
    /\ UNCHANGED userVars

NextShared ==
    \/ CallNewOrder
    \/ CallAddItem
    \/ CallRemoveItem
    \/ CallConfirm
    \/ CallShip
    \/ CallDeliver
    \/ CallCancel
    \/ CallMarkAsDeleted
    \/ CallerAssign
    \/ CallerSetPrice

SpecShared == Init /\ [][NextShared]_vars

----------------------------------------------------------------------------
(* The user requests, one action per step between two repository calls *)

Free(s) == reqs[s].pc \in {"idle", "done"}

\* The use case returns (u, e) and the controller, if the request came
\* through it, answers.
Return(r, u, e) ==
    [r EXCEPT !.pc = "done", !.user = u, !.err = e,
              !.resp = IF r.kind = ControllerCreateUser
                       THEN CreateUserResponse(u, e)
                       ELSE IF r.kind \in {ControllerGetUser,
                                           ControllerUpdateUser}
                       THEN GetUserResponse(u, e)
                       ELSE IF r.kind = ControllerDeleteUser
                       THEN DeleteUserResponse(e)
                       ELSE NoResponse]

\* What a creation request r does once GetByEmail has returned found, n
\* being what NewUser returns for its input.
AfterGetByEmailAlwaysCreates(r, found, n) ==
    IF n.err # NoError THEN Return(r, NoUser, n.err)
    ELSE [r EXCEPT !.pc = "Create", !.user = n.user]

AfterGetByEmail(r, found, n) ==
    IF found = NoError THEN Return(r, NoUser, ErrEmailExists)
    ELSE IF found # ErrUserNotFound THEN Return(r, NoUser, found)
    ELSE IF n.err # NoError THEN Return(r, NoUser, n.err)
    ELSE [r EXCEPT !.pc = "Create", !.user = n.user]

OrderUnchanged == UNCHANGED <<heap, arrays, order, callerItems, op, args, err>>

\* A creation request from its arrival to the return of GetByEmail: the
\* controller binds the body, the use case or the handler validates, looks
\* the email up and builds the entity.  The request is one of the given
\* kinds with one of the given inputs.
CreateUserGetByEmail(s, kinds, inputs) ==
    /\ Free(s)
    /\ Len(users) + Cardinality({x \in Slots : reqs[x].pc = "Create"})
          < MaxUsers
    /\ \E kind \in kinds, a \in inputs :
       \E found \in Outcomes(GetByEmail(users, a[1])) :
          LET in == [NoInput EXCEPT !.email = a[1], !.name = a[2],
                                    !.password = a[3]]
              r0 == [NoRequest EXCEPT !.kind = kind, !.in = in]
              bound == IF kind = ControllerCreateUser
                       THEN ShouldBindJSON(in) ELSE NoError
              valid == IF kind = CommandHandle
                       THEN validateCommand(in) ELSE CreateUserValidation(in)
              r1 == Called(r0, "GetByEmail", found)
              n == NewUser(in.email, in.name, in.password, now, now)
          IN /\ reqs' = [reqs EXCEPT ![s] =
                   IF bound # NoError
                   THEN [r0 EXCEPT !.pc = "done",
                                   !.resp = [status |-> StatusBadRequest,
                                             body |-> ErrorBody(bound)]]
                   ELSE IF valid # NoError THEN Return(r0, NoUser, valid)
                   ELSE AfterGetByEmail(r1, found, n)]
    /\ UNCHANGED <<users, uniqueIndex, repository, now>>
    /\ OrderUnchanged
    /\ UNCHANGED <<user, call, admin>>

\* The rest of a creation request: repository Create and the return.
CreateUserCreate(s) ==
    /\ reqs[s].pc = "Create"
    /\ LET c == Create(users, reqs[s].user, uniqueIndex)
       IN \E e \in Outcomes(c) :
             /\ users' = IF e = NoError THEN c.table ELSE users
             /\ reqs' = [reqs EXCEPT ![s] =
                   IF e # NoError
                   THEN Return(Called(@, "Create", e), NoUser, e)
                   ELSE Return(Called(@, "Create", e), c.user, NoError)]
    /\ UNCHANGED <<uniqueIndex, repository, now>>
    /\ OrderUnchanged
    /\ UNCHANGED <<user, call, admin>>

GetUser(s) ==
    /\ Free(s)
    /\ \E id \in IDs :
          LET g == GetByID(users, id)
              r0 == [NoRequest EXCEPT !.kind = ControllerGetUser, !.in.id = id]
          IN \E e \in Outcomes(g) :
                reqs' = [reqs EXCEPT ![s] =
                   Return(Called(r0, "GetByID", e),
                          IF e = NoError THEN g.user ELSE NoUser, e)]
    /\ UNCHANGED <<users, uniqueIndex, repository, now>>
    /\ OrderUnchanged
    /\ UNCHANGED <<user, call, admin>>

GetUsers(s) ==
    /\ Free(s)
    /\ \E p \in Pages :
          LET g == GetAll(users, p[1], p[2])
              r0 == [NoRequest EXCEPT !.kind = ControllerGetUsers,
                                      !.in.limit = p[1], !.in.offset = p[2]]
          IN \E e \in Outcomes(g) :
                LET list == IF e = NoError THEN g.users ELSE <<>>
                IN reqs' = [reqs EXCEPT ![s] =
                      [Called(r0, "GetAll", e) EXCEPT
                          !.pc = "done", !.list = list, !.err = e,
                          !.resp = GetUsersResponse(list, p[1], p[2], e)]]
    /\ UNCHANGED <<users, uniqueIndex, repository, now>>
    /\ OrderUnchanged
    /\ UNCHANGED <<user, call, admin>>

\* An update request from its arrival to the return of UpdateInfo, whose
\* time.Now() falls in the tick of the request or, where later says so, in
\* the next one.
UpdateUserGetByID(s, ids, inputs, later) ==
    /\ Free(s)
    /\ \E id \in ids, a \in inputs, t \in IF later THEN Later(now) ELSE {now} :
          LET g == GetByID(users, id)
              r0 == [NoRequest EXCEPT !.kind = ControllerUpdateUser,
                                      !.in.id = id, !.in.email = a[1],
                                      !.in.name = a[2]]
          IN \E e \in Outcomes(g) :
                /\ reqs' = [reqs EXCEPT ![s] =
                      IF e # NoError
                      THEN Return(Called(r0, "GetByID", e), NoUser, e)
                      ELSE [Called(r0, "GetByID", e) EXCEPT
                               !.pc = "Update",
                               !.user = UpdateInfo(g.user, a[2], a[1], t)]]
                /\ now' = IF e = NoError THEN t ELSE now
    /\ UNCHANGED <<users, uniqueIndex, repository>>
    /\ OrderUnchanged
    /\ UNCHANGED <<user, call, admin>>

\* The rest of an update request: repository Update and the return.
UpdateUserUpdate(s) ==
    /\ reqs[s].pc = "Update"
    /\ LET w == Update(users, reqs[s].user, repository, uniqueIndex, now)
       IN \E e \in Outcomes(w) :
             /\ users' = IF e = NoError THEN w.table ELSE users
             /\ reqs' = [reqs EXCEPT ![s] =
                   IF e # NoError
                   THEN Return(Called(@, "Update", e), NoUser, e)
                   ELSE Return(Called(@, "Update", e), @.user, NoError)]
    /\ UNCHANGED <<uniqueIndex, repository, now>>
    /\ OrderUnchanged
    /\ UNCHANGED <<user, call, admin>>

DeleteUser(s) ==
    /\ Free(s)
    /\ \E id \in IDs :
          LET d == Delete(users, id, now)
              r0 == [NoRequest EXCEPT !.kind = ControllerDeleteUser,
                                      !.in.id = id]
          IN \E e \in Outcomes(d) :
                /\ users' = IF e = NoError THEN d.table ELSE users
                /\ reqs' = [reqs EXCEPT ![s] =
                      Return(Called(r0, "Delete", e), NoUser, e)]
    /\ UNCHANGED <<uniqueIndex, repository, now>>
    /\ OrderUnchanged
    /\ UNCHANGED <<user, call, admin>>

\* The application as it may be wired: either repository, the users table
\* with its unique index on email or without it.
UserInit ==
    /\ Start
    /\ uniqueIndex \in BOOLEAN
    /\ repository \in Repositories

UserStep(s) ==
    \/ CreateUserGetByEmail(s, CreateKinds, CreateUserArgs)
    \/ CreateUserCreate(s)
    \/ GetUser(s)
    \/ GetUsers(s)
    \/ UpdateUserGetByID(s, IDs, UpdateUserArgs, FALSE)
    \/ UpdateUserUpdate(s)
    \/ DeleteUser(s)

\* The requests arrive one after the other.
NextUser == \E s \in Sequential : UserStep(s)

SpecUser == UserInit /\ [][NextUser]_vars

\* Two requests may be in flight at once, each in its own goroutine.  These
\* are the requests that write: creations through the use case, updates of
\* the first user and deletions.
ConcurrentStep(s) ==
    \/ CreateUserGetByEmail(s, {UseCaseCreateUser}, ConcurrentCreateArgs)
    \/ CreateUserCreate(s)
    \/ UpdateUserGetByID(s, {1}, UpdateUserArgs, FALSE)
    \/ UpdateUserUpdate(s)
    \/ DeleteUser(s)

NextConcurrent == \E s \in Slots : ConcurrentStep(s)

SpecConcurrent == UserInit /\ [][NextConcurrent]_vars

\* Updates over the ticks of the clock: users are created through the use
\* case and updated one request after the other, with every combination of
\* a named and an unnamed field, in the tick of the request before or later.
UpdateStep(s) ==
    \/ CreateUserGetByEmail(s, {UseCaseCreateUser}, ConcurrentCreateArgs)
    \/ CreateUserCreate(s)
    \/ UpdateUserGetByID(s, IDs, AllUpdateArgs, TRUE)
    \/ UpdateUserUpdate(s)

NextUpdate == \E s \in Sequential : UpdateStep(s)

SpecUpdate == UserInit /\ [][NextUpdate]_vars

----------------------------------------------------------------------------
(* What the claims speak of *)

\* The items of the order, by value and in list order.
ItemValues ==
    IF order = NoOrder THEN <<>>
    ELSE [i \in 1..order.Items.len |-> heap[arrays[order.Items.arr][i]]]

\* The contents of the list the caller handed to NewOrder, by value.
CallerValues ==
    [i \in 1..callerItems.len |-> heap[arrays[callerItems.arr][i]]]

RECURSIVE SumOfProducts(_)
SumOfProducts(items) ==
    IF Len(items) = 0 THEN 0
    ELSE SumOfProducts(SubSeq(items, 1, Len(items) - 1))
         + items[Len(items)].Price * items[Len(items)].Quantity

StatusChanges ==
    {<<OrderStatusPending, OrderStatusConfirmed>>,
     <<OrderStatusConfirmed, OrderStatusShipped>>,
     <<OrderStatusShipped, OrderStatusDelivered>>,
     <<OrderStatusPending, OrderStatusCancelled>>,
     <<OrderStatusConfirmed, OrderStatusCancelled>>,
     <<OrderStatusShipped, OrderStatusCancelled>>}

----------------------------------------------------------------------------
\* C1: in every state reached from a successful NewOrder by calls of the
\* order's operations, TotalAmount is the sum of price * quantity over the
\* order's current items.
C1_TotalIsSumOfItems ==
    order # NoOrder => order.TotalAmount = SumOfProducts(ItemValues)

\* An item was added, then an item removed, and items worth something remain.
C1_Witness ==
    /\ order # NoOrder
    /\ op = "RemoveItem" /\ err = NoError
    /\ \E i \in 1..Len(ItemValues) : ItemValues[i].Quantity = 2
    /\ order.TotalAmount = 10

\* C2: every change of status is one step forward along
\* pending -> confirmed -> shipped -> delivered or a cancellation of an order
\* not yet delivered; delivered and cancelled are never left.
C2_StatusMovesForward ==
    [][(order # NoOrder /\ order'.Status # order.Status)
          => <<order.Status, order'.Status>> \in StatusChanges]_vars

\* A delivered order on which a further status operation was tried.
C2_Witness ==
    /\ order # NoOrder
    /\ order.Status = OrderStatusDelivered
    /\ op \in {"Confirm", "Ship", "Cancel"}

\* C3: Confirm, Ship and Deliver succeed exactly from pending, confirmed and
\* shipped, giving confirmed, shipped and delivered; from any other status
\* they return ErrInvalidOrderStatusTransition and keep the status.
StepsForward(name, from, to) ==
    (op' = name /\ order # NoOrder) =>
        IF order.Status = from
        THEN err' = NoError /\ order'.Status = to
        ELSE err' = ErrInvalidOrderStatusTransition
             /\ order'.Status = order.Status

C3_ForwardOperations ==
    [][/\ StepsForward("Confirm", OrderStatusPending, OrderStatusConfirmed)
       /\ StepsForward("Ship", OrderStatusConfirmed, OrderStatusShipped)
       /\ StepsForward("Deliver", OrderStatusShipped, OrderStatusDelivered)]_vars

\* Ship was refused on a cancelled order.
C3_Witness ==
    /\ order # NoOrder
    /\ order.Status = OrderStatusCancelled
    /\ op = "Ship" /\ err = ErrInvalidOrderStatusTransition

\* C4: Cancel on a delivered order returns ErrCannotCancelDeliveredOrder and
\* the order stays delivered; on a pending, confirmed or shipped order it
\* returns no error and the order becomes cancelled.
C4_Cancel ==
    [][(op' = "Cancel" /\ order # NoOrder) =>
          /\ order.Status = OrderStatusDelivered =>
                /\ err' = ErrCannotCancelDeliveredOrder
                /\ order'.Status = OrderStatusDelivered
          /\ order.Status \in {OrderStatusPending, OrderStatusConfirmed,
                               OrderStatusShipped} =>
                /\ err' = NoError
                /\ order'.Status = OrderStatusCancelled]_vars

\* Cancel was refused on a delivered order.
C4_Witness ==
    /\ order # NoOrder
    /\ order.Status = OrderStatusDelivered
    /\ op = "Cancel" /\ err = ErrCannotCancelDeliveredOrder

\* C5: AddItem and RemoveItem return ErrOrderNotModifiable on an order that
\* is not pending, the item list changes only while the order is pending,
\* and AddItem on a pending order succeeds and appends one item carrying the
\* given productID, quantity and price at the end of the list.
C5_ItemsChangeOnlyWhilePending ==
    [][order # NoOrder =>
          /\ (op' \in {"AddItem", "RemoveItem"}
              /\ order.Status # OrderStatusPending)
                => err' = ErrOrderNotModifiable
          /\ order.Status # OrderStatusPending => ItemValues' = ItemValues
          /\ (op' = "AddItem" /\ order.Status = OrderStatusPending) =>
                /\ err' = NoError
                /\ Len(ItemValues') = Len(ItemValues) + 1
                /\ SubSeq(ItemValues', 1, Len(ItemValues)) = ItemValues
                /\ ItemValues'[Len(ItemValues')].ProductID = args'.productID
                /\ ItemValues'[Len(ItemValues')].Quantity = args'.quantity
                /\ ItemValues'[Len(ItemValues')].Price = args'.price]_vars

\* AddItem appended a second item to a pending order.
C5_Witness ==
    /\ order # NoOrder
    /\ op = "AddItem" /\ err = NoError
    /\ Len(ItemValues) = 2
    /\ ItemValues[2].Quantity = -1

\* C6: RemoveItem(id) on a pending order none of whose items has that id
\* returns ErrOrderItemNotFound and leaves the items, TotalAmount, Status and
\* UpdatedAt as they were.
C6_RemoveUnknownItem ==
    [][(/\ op' = "RemoveItem"
        /\ order # NoOrder
        /\ order.Status = OrderStatusPending
        /\ \A i \in 1..Len(ItemValues) : ItemValues[i].ID # args'.itemID) =>
          /\ err' = ErrOrderItemNotFound
          /\ ItemValues' = ItemValues
          /\ order'.Items = order.Items
          /\ order'.TotalAmount = order.TotalAmount
          /\ order'.Status = order.Status
          /\ order'.UpdatedAt = order.UpdatedAt]_vars

\* RemoveItem did not find the id among the two items of a pending order.
C6_Witness ==
    /\ order # NoOrder
    /\ op = "RemoveItem" /\ err = ErrOrderItemNotFound
    /\ Len(ItemValues) = 2
    /\ args.itemID = 2

\* C7: NewOrder returns ErrInvalidUserID for userID 0 whatever the items,
\* ErrEmptyOrder for a non-zero userID without items, and otherwise a pending,
\* not deleted order of that user holding the given items in the given order,
\* with TotalAmount the sum of price * quantity.
C7_NewOrder ==
    [][op' = "NewOrder" =>
          IF args'.userID = 0
          THEN err' = ErrInvalidUserID /\ order' = NoOrder
          ELSE IF args'.items = <<>>
          THEN err' = ErrEmptyOrder /\ order' = NoOrder
          ELSE /\ err' = NoError
               /\ order' # NoOrder
               /\ order'.UserID = args'.userID
               /\ order'.Status = OrderStatusPending
               /\ ItemValues' = args'.items
               /\ order'.TotalAmount = SumOfProducts(args'.items)
               /\ order'.DeletedAt = NilTime]_vars

\* NewOrder returned an order of two items.
C7_Witness ==
    /\ order # NoOrder
    /\ op = "NewOrder" /\ err = NoError
    /\ Len(args.items) = 2
    /\ order.TotalAmount = 10

\* C8: every item held by an order has Quantity > 0 and Price >= 0, whatever
\* quantity and price AddItem was called with.
C8_ItemsArePositive ==
    \A i \in 1..Len(ItemValues) :
        ItemValues[i].Quantity > 0 /\ ItemValues[i].Price >= 0

\* C9: the order alone owns its item list: AddItem and RemoveItem leave the
\* contents of the list handed to NewOrder as they were, and what the caller
\* later does to that list leaves the order's items as they were and
\* TotalAmount equal to their sum.
C9_ItemsOwnedByOrder ==
    [][order # NoOrder =>
          /\ op' \in {"AddItem", "RemoveItem"} => CallerValues' = CallerValues
          /\ op' \in {"CallerAssign", "CallerSetPrice"} =>
                /\ ItemValues' = ItemValues
                /\ order'.TotalAmount = SumOfProducts(ItemValues')]_vars

\* C10: a call of Confirm, Ship, Deliver, Cancel, AddItem or RemoveItem that
\* returns an error leaves the order as it was: Status, items, TotalAmount,
\* UpdatedAt and DeletedAt.
C10_FailureChangesNothing ==
    [][(/\ order # NoOrder
        /\ op' \in {"Confirm", "Ship", "Deliver", "Cancel", "AddItem",
                    "RemoveItem"}
        /\ err' # NoError) =>
          /\ order' = order
          /\ ItemValues' = ItemValues]_vars

\* Deliver was refused on a confirmed order that had been soft-deleted.
C10_Witness ==
    /\ order # NoOrder
    /\ op = "Deliver" /\ err = ErrInvalidOrderStatusTransition
    /\ order.Status = OrderStatusConfirmed
    /\ IsDeleted(order)

\* C11: the clock not running backwards, every successful AddItem,
\* RemoveItem, Confirm, Ship, Deliver, Cancel and MarkAsDeleted sets UpdatedAt
\* to the time of the call, so UpdatedAt never decreases and is never earlier
\* than CreatedAt.
C11_UpdatedAtFollowsTheClock ==
    [][order' # NoOrder =>
          /\ order'.CreatedAt <= order'.UpdatedAt
          /\ order # NoOrder => order.UpdatedAt <= order'.UpdatedAt
          /\ (/\ order # NoOrder
              /\ op' \in {"AddItem", "RemoveItem", "Confirm", "Ship",
                          "Deliver", "Cancel", "MarkAsDeleted"}
              /\ err' = NoError)
                => order'.UpdatedAt = now' /\ now <= now']_vars

\* An order was soft-deleted later than it was created.
C11_Witness ==
    /\ order # NoOrder
    /\ op = "MarkAsDeleted"
    /\ order.UpdatedAt > order.CreatedAt
    /\ order.UpdatedAt = now

\* C12: once MarkAsDeleted was called IsDeleted is true and stays true
\* whatever is called later, MarkAsDeleted included, and MarkAsDeleted changes
\* DeletedAt and UpdatedAt only.
C12_SoftDeleteIsOneWay ==
    [][order # NoOrder =>
          /\ IsDeleted(order) => IsDeleted(order')
          /\ op' = "MarkAsDeleted" =>
                /\ IsDeleted(order')
                /\ order' = [order EXCEPT !.DeletedAt = order'.DeletedAt,
                                          !.UpdatedAt = order'.UpdatedAt]
                /\ ItemValues' = ItemValues]_vars

\* An item was added to an order soft-deleted earlier.
C12_Witness ==
    /\ order # NoOrder
    /\ IsDeleted(order)
    /\ order.DeletedAt < order.UpdatedAt
    /\ op = "AddItem" /\ err = NoError

----------------------------------------------------------------------------
(* The calls made on a User entity *)

\* The values handed to NewUser, UpdateInfo and ChangePassword.
EntityEmails == {"", "a@x.com"}
EntityNames == {"", "Ann"}
EntityPasswords == {"", "1234567"}
NewEmails == {"", "b@x.com"}
NewNames == {"", "Zoe"}
NewPasswords == {"", "87654321"}

TableUnchanged == UNCHANGED <<users, reqs, uniqueIndex, repository, admin>>

CallNewUser ==
    /\ user = NoUser
    /\ \E email \in EntityEmails, name \in EntityNames,
          password \in EntityPasswords :
       \E t1 \in Later(now) : \E t2 \in Later(t1) :
          LET r == NewUser(email, name, password, t1, t2)
          IN /\ user' = r.user
             /\ call' = [NoCall EXCEPT !.op = "NewUser", !.email = email,
                                       !.name = name, !.password = password,
                                       !.err = r.err]
             /\ now' = IF r.err = NoError THEN t2 ELSE now
    /\ TableUnchanged
    /\ OrderUnchanged

CallUpdateInfo ==
    /\ user # NoUser
    /\ \E name \in NewNames, email \in NewEmails, t \in Later(now) :
          /\ user' = UpdateInfo(user, name, email, t)
          /\ call' = [NoCall EXCEPT !.op = "UpdateInfo", !.email = email,
                                    !.name = name]
          /\ now' = t
    /\ TableUnchanged
    /\ OrderUnchanged

CallChangePassword ==
    /\ user # NoUser
    /\ \E password \in NewPasswords, t \in Later(now) :
          LET r == ChangePassword(user, password, t)
          IN /\ user' = r.user
             /\ call' = [NoCall EXCEPT !.op = "ChangePassword",
                                       !.password = password, !.err = r.err]
             /\ now' = IF r.err = NoError THEN t ELSE now
    /\ TableUnchanged
    /\ OrderUnchanged

CallUserMarkAsDeleted ==
    /\ user # NoUser
    /\ \E t \in Later(now) :
          /\ user' = UserMarkAsDeleted(user, t)
          /\ call' = [NoCall EXCEPT !.op = "MarkAsDeleted",
                                    !.wasDeleted = UserIsDeleted(user)]
          /\ now' = t
    /\ TableUnchanged
    /\ OrderUnchanged

CallActivate ==
    /\ user # NoUser
    /\ \E t \in Later(now) :
          /\ user' = Activate(user, t)
          /\ call' = [NoCall EXCEPT !.op = "Activate",
                                    !.wasDeleted = UserIsDeleted(user)]
          /\ now' = t
    /\ TableUnchanged
    /\ OrderUnchanged

NextEntity ==
    \/ CallNewUser
    \/ CallUpdateInfo
    \/ CallChangePassword
    \/ CallUserMarkAsDeleted
    \/ CallActivate

SpecEntity == Init /\ [][NextEntity]_vars

----------------------------------------------------------------------------
(* The admin routes and their middleware *)

ValidToken == "Bearer valid-token"
AdminRole == "admin"

\* The Authorization and X-User-Role headers a request may carry, "" being
\* what GetHeader returns for a header that is not there.
Authorizations == {"", ValidToken, "Bearer other", "valid-token"}
Roles == {"", AdminRole, "Admin", "user"}

Middleware == <<"RequireAuth", "RequireRole">>

\* <<method, path under /admin/users, handler>>
AdminRoutes ==
    {<<"GET", "", "GetUsers">>,
     <<"GET", "/:id", "GetUser">>,
     <<"PUT", "/:id", "handleAdminUpdateUser">>,
     <<"DELETE", "/:id", "handleAdminDeleteUser">>,
     <<"PUT", "/:id/status", "handleUpdateStatus">>,
     <<"PUT", "/:id/role", "handleUpdateRole">>,
     <<"POST", "/bulk/export", "handleBulkExport">>,
     <<"POST", "/bulk/import", "handleBulkImport">>,
     <<"DELETE", "/bulk/delete", "handleBulkDelete">>,
     <<"GET", "/analytics/stats", "handleUserStats">>,
     <<"GET", "/analytics/activity", "handleUserActivity">>,
     <<"GET", "/analytics/reports", "handleUserReports">>}

\* What the placeholder handlers answer.
PlaceholderMessage ==
    [handleAdminUpdateUser |-> "Admin update user endpoint",
     handleAdminDeleteUser |-> "Admin delete user endpoint",
     handleUpdateStatus |-> "Update status endpoint",
     handleUpdateRole |-> "Update role endpoint",
     handleBulkExport |-> "Bulk export endpoint",
     handleBulkImport |-> "Bulk import endpoint",
     handleBulkDelete |-> "Bulk delete endpoint",
     handleUserStats |-> "User stats endpoint",
     handleUserActivity |-> "User activity endpoint",
     handleUserReports |-> "User reports endpoint"]

\* The keys of a gin.Context on which Set has not been called, as GetUint and
\* GetString read them.
NoKeys == [userID |-> 0, email |-> ""]

\* c.JSON(status, body)
JSON(c, status, body) == [c EXCEPT !.status = status, !.body = body]

\* c.Abort(): no handler after this one runs.
Abort(c) == [c EXCEPT !.aborted = TRUE]

\* A RequireAuth that would let any token through.
RequireAuthAnyToken(c) ==
    IF c.authorization = ""
    THEN Abort(JSON(c, StatusUnauthorized,
                    ErrorBody("Authorization header required")))
    ELSE [c EXCEPT !.keys = [userID |-> 1, email |-> "user@example.com"]]

\* The context as RequireAuth leaves it at its c.Next() or at its return.
RequireAuth(c) ==
    IF c.authorization = ""
    THEN Abort(JSON(c, StatusUnauthorized,
                    ErrorBody("Authorization header required")))
    ELSE IF c.authorization # ValidToken
    THEN Abort(JSON(c, StatusUnauthorized, ErrorBody("Invalid token")))
    ELSE [c EXCEPT !.keys = [userID |-> 1, email |-> "user@example.com"]]

RequireRole(c, role) ==
    IF c.role # role
    THEN Abort(JSON(c, StatusForbidden, ErrorBody("Insufficient permissions")))
    ELSE c

\* The handler at c.index has run and left the context c: the chain goes on
\* with the next handler unless it was aborted or that was the last one.
Ran(c) ==
    LET d == [c EXCEPT !.ran = Append(@, c.handlers[c.index])]
    IN IF d.aborted \/ d.index = Len(d.handlers)
       THEN [d EXCEPT !.pc = "done"]
       ELSE [d EXCEPT !.index = @ + 1]

AdminOnly ==
    /\ UNCHANGED <<users, reqs, uniqueIndex, repository, user, call, now>>
    /\ OrderUnchanged

\* registerAdminRoutes: the group uses RequireAuth and RequireRole("admin"),
\* in that order, when the configuration has an AuthMiddleware.
registerAdminRoutes ==
    /\ admin.pc = "start"
    /\ \E AuthMiddleware \in BOOLEAN :
          admin' = [pc |-> "idle",
                    use |-> IF AuthMiddleware THEN Middleware ELSE <<>>,
                    route |-> <<"", "", "">>, authorization |-> "",
                    role |-> "", handlers |-> <<>>, index |-> 0,
                    ran |-> <<>>, aborted |-> FALSE, keys |-> NoKeys,
                    status |-> 0, body |-> NoBody]
    /\ AdminOnly

\* A request arrives on one of the routes: its chain is the middleware of the
\* group followed by the handler of the route.
AdminRequest ==
    /\ admin.pc \in {"idle", "done"}
    /\ \E route \in AdminRoutes, authorization \in Authorizations,
          role \in Roles :
          admin' = [pc |-> "handling", use |-> admin.use, route |-> route,
                    authorization |-> authorization, role |-> role,
                    handlers |-> admin.use \o <<route[3]>>, index |-> 1,
                    ran |-> <<>>, aborted |-> FALSE, keys |-> NoKeys,
                    status |-> 0, body |-> NoBody]
    /\ AdminOnly

HandleRequireAuth ==
    /\ admin.pc = "handling"
    /\ admin.handlers[admin.index] = "RequireAuth"
    /\ admin' = Ran(RequireAuth(admin))
    /\ AdminOnly

HandleRequireRole ==
    /\ admin.pc = "handling"
    /\ admin.handlers[admin.index] = "RequireRole"
    /\ admin' = Ran(RequireRole(admin, AdminRole))
    /\ AdminOnly

\* The handler of the route: a method of the user controller or a
\* placeholder.
HandleRoute ==
    /\ admin.pc = "handling"
    /\ LET h == admin.handlers[admin.index]
       IN \/ /\ h = "GetUsers"
             /\ \E p \in Pages :
                   LET g == GetAll(users, p[1], p[2])
                   IN \E e \in Outcomes(g) :
                         LET list == IF e = NoError THEN g.users ELSE <<>>
                             resp == GetUsersResponse(list, p[1], p[2], e)
                         IN admin' = Ran(JSON(admin, resp.status, resp.body))
          \/ /\ h = "GetUser"
             /\ \E id \in IDs :
                   LET g == GetByID(users, id)
                   IN \E e \in Outcomes(g) :
                         LET resp == GetUserResponse(g.user, e)
                         IN admin' = Ran(JSON(admin, resp.status, resp.body))
          \/ /\ h \in DOMAIN PlaceholderMessage
             /\ admin' = Ran(JSON(admin, StatusOK,
                                  [message |-> PlaceholderMessage[h]]))
    /\ AdminOnly

NextAdmin ==
    \/ registerAdminRoutes
    \/ AdminRequest
    \/ HandleRequireAuth
    \/ HandleRequireRole
    \/ HandleRoute

SpecAdmin == Init /\ [][NextAdmin]_vars

----------------------------------------------------------------------------
(* What the user claims speak of *)

\* The live rows that share their email with another live row.
DuplicateEmails ==
    {i \in Live(users) :
        \E j \in Live(users) : j # i /\ users[j].Email = users[i].Email}

\* Claim C13: after any sequence of CreateUser, UpdateUser and DeleteUser
\* calls made one after the other, no two non-deleted users in storage have
\* the same email, by the use case's own checks: the table has no unique
\* index here.
C13_EmailsAreUnique == ~uniqueIndex => DuplicateEmails = {}

\* Claim C14: a creation, by userUseCase.CreateUser or by
\* CreateUserCommandHandler.Handle, looks the email up first.  When
\* GetByEmail returns a user the call returns ErrEmailExists, when it returns
\* an error other than ErrUserNotFound the call returns that error, and in
\* both cases Create is not called and the table is left alone; Create is
\* called only after GetByEmail returned ErrUserNotFound, and then it is
\* the next call when NewUser accepts the input.
C14_LookupBeforeCreate ==
    [][\A s \in Slots :
          LET r == reqs'[s]
              lookup == r.calls[1]
          IN (r # reqs[s] /\ r.kind \in CreateKinds /\ r.calls # <<>>) =>
                /\ lookup.name = "GetByEmail"
                /\ lookup.err = NoError =>
                      /\ r.pc = "done" /\ r.err = ErrEmailExists
                      /\ Len(r.calls) = 1 /\ users' = users
                /\ lookup.err \notin {NoError, ErrUserNotFound} =>
                      /\ r.pc = "done" /\ r.err = lookup.err
                      /\ Len(r.calls) = 1 /\ users' = users
                /\ Len(r.calls) > 1 =>
                      /\ lookup.err = ErrUserNotFound
                      /\ Len(r.calls) = 2 /\ r.calls[2].name = "Create"
                /\ (/\ lookup.err = ErrUserNotFound
                    /\ NewUser(r.in.email, r.in.name, r.in.password,
                               now, now).err = NoError
                    /\ Len(r.calls) = 1) => r.pc = "Create"]_vars

\* Handle has found the email taken and has returned without calling Create.
C14_Witness ==
    /\ reqs["r1"].kind = CommandHandle
    /\ reqs["r1"].err = ErrEmailExists
    /\ reqs["r1"].calls = <<[name |-> "GetByEmail", err |-> NoError]>>
    /\ Len(users) = 1

\* The rows, soft-deleted ones included, that hold the email.
RowsWithEmail(email) == {i \in 1..Len(users) : users[i].Email = email}

\* Claim C15: nothing stands between a creation's lookup and its Create.
\* A request whose lookup returned not-found calls Create whatever the other
\* request has written since; Create refuses only when the database fails
\* or the unique index is broken, and otherwise inserts the row, next to a
\* row that already holds the email if there is one.  So two requests for
\* one unregistered email can both find it free and both call Create.
C15_NoLockBetweenLookupAndCreate ==
    [][\A s \in Slots :
          LET r == reqs'[s]
              held == RowsWithEmail(reqs[s].user.Email)
          IN (reqs[s].pc = "Create" /\ r # reqs[s]) =>
                /\ r.calls[1] = [name |-> "GetByEmail", err |-> ErrUserNotFound]
                /\ Len(r.calls) = 2 /\ r.calls[2].name = "Create"
                /\ r.pc = "done" /\ r.err = r.calls[2].err
                /\ r.err \in {NoError, ErrDB, ErrDuplicateEntry}
                /\ r.err = ErrDuplicateEntry => uniqueIndex /\ held # {}
                /\ r.err # NoError => users' = users
                /\ r.err = NoError =>
                      /\ uniqueIndex => held = {}
                      /\ Len(users') = Len(users) + 1
                      /\ SubSeq(users', 1, Len(users)) = users
                      /\ ToDomainEntity(users'[Len(users')]) = r.user
                      /\ r.user = [reqs[s].user EXCEPT !.ID = Len(users')]]_vars

\* Both requests asked for a@x.com, both lookups returned not-found, both
\* called Create and the table holds the email twice.
C15_Witness ==
    /\ \A s \in Slots :
          /\ reqs[s].kind = UseCaseCreateUser
          /\ reqs[s].in.email = "a@x.com"
          /\ reqs[s].calls = <<[name |-> "GetByEmail", err |-> ErrUserNotFound],
                               [name |-> "Create", err |-> NoError]>>
    /\ Cardinality({i \in Live(users) : users[i].Email = "a@x.com"}) = 2

\* Claim C16: an update saves the copy it fetched.  The user a request
\* holds after its fetch is the stored row with the request's non-empty
\* fields put in; its save, unless the database refuses it, writes that
\* copy's email, name and password over the row, whatever has been saved
\* there since the fetch.  So of two updates of one user that both fetch
\* before either saves, the later save undoes the earlier one's change.
\* (A row soft-deleted since the fetch is left alone by Updates and is
\* overwritten, live again, by Save.)
C16_SaveWritesTheFetchedCopy ==
    [][\A s \in Slots :
          LET r == reqs'[s]
              u == reqs[s].user
          IN /\ (reqs[s].pc # "Update" /\ r.pc = "Update") =>
                   LET row == users[r.in.id]
                   IN /\ r.calls = <<[name |-> "GetByID", err |-> NoError]>>
                      /\ r.user.ID = r.in.id
                      /\ r.user.Email =
                            IF r.in.email # "" THEN r.in.email ELSE row.Email
                      /\ r.user.Name =
                            IF r.in.name # "" THEN r.in.name ELSE row.Name
                      /\ r.user.Password = row.Password
                      /\ users' = users
             /\ (reqs[s].pc = "Update" /\ r # reqs[s]) =>
                   /\ r.pc = "done" /\ Len(r.calls) = 2
                   /\ r.calls[2] = [name |-> "Update", err |-> r.err]
                   /\ r.err \in {NoError, ErrDB, ErrDuplicateEntry}
                   /\ r.err = ErrDuplicateEntry => uniqueIndex
                   /\ r.err # NoError => users' = users
                   /\ r.err = NoError =>
                         /\ r.user = u
                         /\ Len(users') = Len(users)
                         /\ \A i \in 1..Len(users) :
                               IF /\ i = u.ID
                                  /\ \/ i \in Live(users)
                                     \/ repository = RepositoryGorm
                               THEN /\ users'[i].Email = u.Email
                                    /\ users'[i].Name = u.Name
                                    /\ users'[i].Password = u.Password
                                    /\ i \in Live(users')
                               ELSE users'[i] = users[i]]_vars

\* One request has renamed user 1, the other has changed its email, both
\* returned without an error, and the stored user has the new name with the
\* old email.
C16_Witness ==
    /\ \A s \in Slots :
          /\ reqs[s].kind = ControllerUpdateUser
          /\ reqs[s].in.id = 1
          /\ reqs[s].pc = "done"
          /\ reqs[s].err = NoError
    /\ reqs["r1"].in.name = "Zoe" /\ reqs["r1"].in.email = ""
    /\ reqs["r2"].in.name = "" /\ reqs["r2"].in.email = "b@x.com"
    /\ users[1].Name = "Zoe"
    /\ users[1].Email = "a@x.com"

\* The rows that are soft-deleted.
Deleted(tbl) == {i \in 1..Len(tbl) : tbl[i].DeletedAt.Valid}

ResponseWithPassword(r, p) ==
    LET u == IF r.user = NoUser THEN NoUser ELSE [r.user EXCEPT !.Password = p]
        list == [k \in 1..Len(r.list) |-> [r.list[k] EXCEPT !.Password = p]]
    IN IF r.kind = ControllerCreateUser THEN CreateUserResponse(u, r.err)
       ELSE IF r.kind \in {ControllerGetUser, ControllerUpdateUser}
       THEN GetUserResponse(u, r.err)
       ELSE GetUsersResponse(list, r.in.limit, r.in.offset, r.err)

\* Claim C18: passwords are not exposed in API responses.  The response of
\* UserController.CreateUser, GetUser, GetUsers and UpdateUser is the same
\* whatever password the users it returns are stored with.
C18_ResponsesHidePasswords ==
    \A s \in Slots :
       LET r == reqs[s]
       IN (/\ r.pc = "done"
           /\ r.kind \in {ControllerCreateUser, ControllerGetUser,
                          ControllerGetUsers, ControllerUpdateUser}
           /\ r.err = NoError
           /\ r.resp.status # StatusBadRequest) =>
             \A p \in Passwords : r.resp = ResponseWithPassword(r, p)

\* Claim C19: every user persisted through a creation path of the use-case
\* layer, userUseCase.CreateUser or CreateUserCommandHandler.Handle, has a
\* password of at least 8 characters.
C19_StoredPasswordsAreLongEnough ==
    \A i \in 1..Len(users) : Len(users[i].Password) >= MinPasswordLen

\* Claim C20: Handle returns ErrInvalidPassword for a command whose password
\* is shorter than 8 characters, before any repository call; NewUser by
\* itself accepts any non-empty password, shorter ones included.
C20_HandleChecksPasswordLength ==
    [][\A s \in Slots :
          LET r == reqs'[s]
              n == NewUser(r.in.email, r.in.name, r.in.password, now, now)
          IN (r # reqs[s] /\ r.kind \in CreateKinds) =>
                /\ (/\ r.kind = CommandHandle
                    /\ Len(r.in.password) < MinPasswordLen) =>
                      /\ r.pc = "done"
                      /\ r.err = ErrInvalidPassword
                      /\ r.user = NoUser
                      /\ r.calls = <<>>
                      /\ users' = users
                /\ (/\ r.kind = CommandHandle
                    /\ Len(r.in.password) >= MinPasswordLen) =>
                      r.calls # <<>>
                /\ (r.in.email # "" /\ r.in.name # "" /\ r.in.password # "") =>
                      /\ n.err = NoError
                      /\ n.user.Password = r.in.password
                /\ r.pc = "Create" => r.user = n.user]_vars

\* Handle has refused a password of 7 characters without calling the
\* repository, while a user built by NewUser with that password is stored.
C20_Witness ==
    /\ reqs["r1"].kind = CommandHandle
    /\ reqs["r1"].in.password = "1234567"
    /\ reqs["r1"].err = ErrInvalidPassword
    /\ reqs["r1"].calls = <<>>
    /\ \E i \in 1..Len(users) : users[i].Password = "1234567"

\* Claim C21: the use case passes domain errors through unchanged.  When
\* userUseCase.CreateUser refuses an input because its email, its name or
\* its password is empty, it returns the error NewUser returns for that input.
C21_CreateUserReturnsTheFactoryError ==
    \A s \in Slots :
       LET r == reqs[s]
       IN (/\ r.kind = UseCaseCreateUser
           /\ r.pc = "done"
           /\ r.in.email = "" \/ r.in.name = "" \/ r.in.password = "") =>
             r.err = NewUser(r.in.email, r.in.name, r.in.password, now, now).err

\* Claim C22: NewUser returns ErrInvalidEmail for an empty email, otherwise
\* ErrInvalidName for an empty name, otherwise ErrInvalidPassword for an
\* empty password, and otherwise a user that is not deleted and carries the
\* given email, name and password, both timestamps set.
C22_NewUser ==
    [][(user = NoUser /\ call'.op = "NewUser") =>
          IF call'.email = ""
          THEN call'.err = ErrInvalidEmail /\ user' = NoUser
          ELSE IF call'.name = ""
          THEN call'.err = ErrInvalidName /\ user' = NoUser
          ELSE IF call'.password = ""
          THEN call'.err = ErrInvalidPassword /\ user' = NoUser
          ELSE /\ call'.err = NoError
               /\ user'.Email = call'.email
               /\ user'.Name = call'.name
               /\ user'.Password = call'.password
               /\ user'.ID = 0
               /\ ~UserIsDeleted(user')
               /\ now <= user'.CreatedAt
               /\ user'.CreatedAt <= user'.UpdatedAt
               /\ user'.UpdatedAt = now']_vars

\* NewUser has been called with an email and neither name nor password, and
\* has returned ErrInvalidName.
C22_Witness ==
    /\ call.op = "NewUser"
    /\ call.email = "a@x.com" /\ call.name = "" /\ call.password = ""
    /\ call.err = ErrInvalidName
    /\ user = NoUser

\* Claim C24: MarkAsDeleted and Activate toggle the soft deletion of a user.
\* After MarkAsDeleted IsDeleted is true and after Activate it is false,
\* whatever it was before the call; neither changes Email, Name or Password,
\* ID or CreatedAt.
C24_MarkAsDeletedAndActivate ==
    [][(user # NoUser /\ call'.op \in {"MarkAsDeleted", "Activate"}) =>
          /\ UserIsDeleted(user') <=> call'.op = "MarkAsDeleted"
          /\ user' = [user EXCEPT !.DeletedAt = user'.DeletedAt,
                                  !.UpdatedAt = user'.UpdatedAt]
          /\ user'.UpdatedAt = now'
          /\ call'.op = "MarkAsDeleted" => user'.DeletedAt = now']_vars

\* Activate has been called on a deleted user, which is live again.
C24_Witness ==
    /\ call.op = "Activate"
    /\ call.wasDeleted
    /\ user # NoUser
    /\ ~UserIsDeleted(user)

\* Claim C23: UpdateInfo(name, email) overwrites Name only when name is not
\* empty and Email only when email is not empty, and never changes ID,
\* Password, CreatedAt or DeletedAt; the same holds end to end for
\* UpdateUser(id, email, name), which applies email to Email and name to Name
\* of the stored user and leaves the other users alone.
C23_UpdateInfoOverwritesNonEmpty ==
    [][\A s \in Sequential :
          LET r == reqs[s]
              q == reqs'[s]
              name(old) == IF q.in.name # "" THEN q.in.name ELSE old
              email(old) == IF q.in.email # "" THEN q.in.email ELSE old
          IN /\ (r.pc # "Update" /\ q.pc = "Update") =>
                   LET u == GetByID(users, q.in.id).user
                   IN /\ q.user.Name = name(u.Name)
                      /\ q.user.Email = email(u.Email)
                      /\ q.user.ID = u.ID
                      /\ q.user.Password = u.Password
                      /\ q.user.CreatedAt = u.CreatedAt
                      /\ q.user.DeletedAt = u.DeletedAt
             /\ (r.pc = "Update" /\ q.pc = "done" /\ q.err = NoError) =>
                   /\ Len(users') = Len(users)
                   /\ \A i \in 1..Len(users) :
                         IF i # q.in.id THEN users'[i] = users[i]
                         ELSE /\ users'[i].Name = name(users[i].Name)
                              /\ users'[i].Email = email(users[i].Email)
                              /\ users'[i].ID = users[i].ID
                              /\ users'[i].Password = users[i].Password
                              /\ users'[i].CreatedAt = users[i].CreatedAt
                              /\ users'[i].DeletedAt = users[i].DeletedAt
                   /\ q.user.Name = users'[q.in.id].Name
                   /\ q.user.Email = users'[q.in.id].Email]_vars

\* An update naming a name and no email has been stored, in a later tick
\* than the creation of the user: the name is the new one and the email the
\* one the user was created with.
C23_Witness ==
    \E s \in Sequential :
       /\ reqs[s].kind = ControllerUpdateUser
       /\ reqs[s].pc = "done"
       /\ reqs[s].err = NoError
       /\ reqs[s].in.email = "" /\ reqs[s].in.name = "Zoe"
       /\ reqs[s].in.id = 1
       /\ Len(users) >= 1
       /\ users[1].Name = "Zoe"
       /\ users[1].Email = "a@x.com"
       /\ users[1].CreatedAt < users[1].UpdatedAt

\* Claim C25: Cancel on an order that is cancelled already returns no error
\* and leaves the status cancelled, only UpdatedAt being written, so Cancel
\* fails on a delivered order only; Confirm, Ship and Deliver on a cancelled
\* order all fail.
C25_CancelledOrder ==
    [][order # NoOrder =>
          /\ (op' = "Cancel" /\ order.Status = OrderStatusCancelled) =>
                /\ err' = NoError
                /\ order'.Status = OrderStatusCancelled
                /\ order' = [order EXCEPT !.UpdatedAt = now']
                /\ ItemValues' = ItemValues
          /\ op' = "Cancel" =>
                (err' # NoError <=> order.Status = OrderStatusDelivered)
          /\ (op' \in {"Confirm", "Ship", "Deliver"}
              /\ order.Status = OrderStatusCancelled) =>
                /\ err' = ErrInvalidOrderStatusTransition
                /\ order' = order]_vars

\* Confirm has been refused on an order cancelled in a later tick than the
\* one it was made in.
C25_Witness ==
    /\ order # NoOrder
    /\ op = "Confirm" /\ err = ErrInvalidOrderStatusTransition
    /\ order.Status = OrderStatusCancelled
    /\ order.CreatedAt < order.UpdatedAt

\* Claim C26: a successful RemoveItem(id) removes exactly one item, the first
\* in list order whose ID is id, and keeps the others in their order; the
\* items AddItem appends having ID 0, RemoveItem(0) removes the earliest item
\* of ID 0 and the other items of that ID remain.
C26_RemoveItemRemovesTheFirstMatch ==
    [][(order # NoOrder /\ op' = "RemoveItem" /\ err' = NoError) =>
          LET M == {i \in 1..Len(ItemValues) :
                       ItemValues[i].ID = args'.itemID}
          IN /\ M # {}
             /\ order.Status = OrderStatusPending
             /\ Len(ItemValues') = Len(ItemValues) - 1
             /\ \A i \in 1..Len(ItemValues') :
                   ItemValues'[i] = IF i < Min(M) THEN ItemValues[i]
                                    ELSE ItemValues[i + 1]]_vars

\* RemoveItem(0) has removed the first of two items of ID 0: the one that is
\* left is the one AddItem appended.
C26_Witness ==
    /\ order # NoOrder
    /\ op = "RemoveItem" /\ err = NoError
    /\ args.itemID = 0
    /\ Len(ItemValues) = 1
    /\ ItemValues[1].ID = 0
    /\ ItemValues[1].Quantity = 2

\* Claim C27: an order needs an item at its creation only.  RemoveItem on a
\* pending order whose single item matches succeeds and leaves no item and a
\* TotalAmount of 0, and an order without items can be confirmed, shipped
\* and delivered.
C27_EmptyOrderGoesOn ==
    [][order # NoOrder =>
          /\ (/\ op' = "RemoveItem"
              /\ order.Status = OrderStatusPending
              /\ Len(ItemValues) = 1
              /\ ItemValues[1].ID = args'.itemID) =>
                /\ err' = NoError
                /\ ItemValues' = <<>>
                /\ order'.TotalAmount = 0
                /\ order'.Status = OrderStatusPending
          /\ Len(ItemValues) = 0 =>
                /\ (op' = "Confirm" /\ order.Status = OrderStatusPending) =>
                      err' = NoError /\ order'.Status = OrderStatusConfirmed
                /\ (op' = "Ship" /\ order.Status = OrderStatusConfirmed) =>
                      err' = NoError /\ order'.Status = OrderStatusShipped
                /\ (op' = "Deliver" /\ order.Status = OrderStatusShipped) =>
                      err' = NoError /\ order'.Status = OrderStatusDelivered
                /\ op' \in {"Confirm", "Ship", "Deliver"} =>
                      ItemValues' = <<>> /\ order'.TotalAmount = 0]_vars

\* An order without items has been delivered.
C27_Witness ==
    /\ order # NoOrder
    /\ op = "Deliver" /\ err = NoError
    /\ order.Status = OrderStatusDelivered
    /\ Len(ItemValues) = 0
    /\ order.TotalAmount = 0

\* The email is that of a soft-deleted user and of no live one.
SoftDeletedOnly(tbl, email) ==
    /\ \E i \in Deleted(tbl) : tbl[i].Email = email
    /\ \A i \in Live(tbl) : tbl[i].Email # email

DomainErrors ==
    {ErrInvalidEmail, ErrInvalidName, ErrInvalidPassword, ErrUserNotFound,
     ErrEmailExists}

\* Claim C28: once a user is soft-deleted, CreateUser with the email of that
\* user does not return ErrEmailExists.  The lookup of the email reports
\* not-found, so the use case goes on to repository Create, and where the
\* storage keeps email unique over all rows, soft-deleted ones included, the
\* call fails with the error of the storage, not with a domain error.
C28_CreateAfterSoftDelete ==
    [][\A s \in Sequential :
          LET r == reqs[s]
              q == reqs'[s]
          IN /\ (/\ Free(s)
                 /\ q # r
                 /\ q.kind \in CreateKinds
                 /\ Len(q.calls) > 0
                 /\ SoftDeletedOnly(users, q.in.email)) =>
                   /\ q.calls[1].name = "GetByEmail"
                   /\ q.calls[1].err \in {ErrUserNotFound, ErrDB}
                   /\ q.err # ErrEmailExists
                   /\ (/\ q.calls[1].err = ErrUserNotFound
                       /\ q.in.name # "" /\ q.in.password # "") =>
                         q.pc = "Create" /\ q.user.Email = q.in.email
             /\ (/\ r.pc = "Create"
                 /\ SoftDeletedOnly(users, r.in.email)
                 /\ uniqueIndex) =>
                   /\ q.pc = "done"
                   /\ q.calls[2].name = "Create"
                   /\ q.err = q.calls[2].err
                   /\ q.err \in {ErrDuplicateEntry, ErrDB}
                   /\ q.err \notin DomainErrors
                   /\ users' = users]_vars

\* A creation with the email of the soft-deleted first user has looked the
\* email up, found nothing, and failed in Create on the unique index.
C28_Witness ==
    \E s \in Sequential :
       /\ reqs[s].kind = UseCaseCreateUser
       /\ reqs[s].pc = "done"
       /\ reqs[s].calls = <<[name |-> "GetByEmail", err |-> ErrUserNotFound],
                            [name |-> "Create", err |-> ErrDuplicateEntry]>>
       /\ reqs[s].err = ErrDuplicateEntry
       /\ SoftDeletedOnly(users, reqs[s].in.email)
       /\ uniqueIndex

\* The errors a use-case method may return.
UseCaseErrors == DomainErrors \cup {ErrDuplicateEntry, ErrDB}

\* Claim C29: UserController.CreateUser answers 201 on success, 400 when the
\* body fails binding, 409 exactly when the use case returns ErrEmailExists
\* and 500 for every other error of the use case, ErrInvalidEmail,
\* ErrInvalidName and ErrInvalidPassword among them; GetUser and UpdateUser
\* answer 404 exactly when the use case returns ErrUserNotFound.
C29_StatusCodes ==
    /\ \A e \in UseCaseErrors :
          /\ CreateUserResponse(NoUser, e).status =
                IF e = ErrEmailExists THEN StatusConflict
                ELSE StatusInternalServerError
          /\ GetUserResponse(NoUser, e).status = StatusNotFound
                <=> e = ErrUserNotFound
    /\ \A s \in Slots :
          LET r == reqs[s]
          IN /\ (r.pc = "done" /\ r.kind = ControllerCreateUser) =>
                   r.resp.status =
                      IF ShouldBindJSON(r.in) # NoError THEN StatusBadRequest
                      ELSE IF r.err = NoError THEN StatusCreated
                      ELSE IF r.err = ErrEmailExists THEN StatusConflict
                      ELSE StatusInternalServerError
             /\ (/\ r.pc = "done"
                 /\ r.kind \in {ControllerGetUser, ControllerUpdateUser}) =>
                   /\ r.resp.status = StatusNotFound
                         <=> r.err = ErrUserNotFound
                   /\ r.err = NoError => r.resp.status = StatusOK

\* The controller has answered 409 to a creation whose email a live user
\* holds.
C29_Witness ==
    \E s \in Slots :
       /\ reqs[s].kind = ControllerCreateUser
       /\ reqs[s].pc = "done"
       /\ reqs[s].err = ErrEmailExists
       /\ reqs[s].resp.status = StatusConflict
       /\ \E i \in Live(users) : users[i].Email = reqs[s].in.email

\* The handlers of the routes, as against the middleware.
RouteHandlers == {route[3] : route \in AdminRoutes}

\* Claim C30: on the routes registerAdminRoutes registers with an
\* AuthMiddleware, the handler of the route runs only for a request whose
\* Authorization header is exactly "Bearer valid-token" and whose
\* X-User-Role header is "admin".  RequireAuth runs before RequireRole: a
\* request failing the token check is answered 401 and aborted without the
\* role check having run, never 403, and a request with the valid token and
\* another role is answered 403 and aborted.
C30_AdminRoutesAreGuarded ==
    (admin.pc \in {"handling", "done"} /\ admin.use = Middleware) =>
       /\ (\E i \in 1..Len(admin.ran) : admin.ran[i] \in RouteHandlers) =>
             admin.authorization = ValidToken /\ admin.role = AdminRole
       /\ \A i \in 1..Len(admin.ran) :
             admin.ran[i] = "RequireRole" =>
                i > 1 /\ admin.ran[i - 1] = "RequireAuth"
       /\ (admin.pc = "done" /\ admin.authorization # ValidToken) =>
             /\ admin.status = StatusUnauthorized
             /\ admin.aborted
             /\ admin.ran = <<"RequireAuth">>
       /\ (/\ admin.pc = "done"
           /\ admin.authorization = ValidToken
           /\ admin.role # AdminRole) =>
             /\ admin.status = StatusForbidden
             /\ admin.aborted
             /\ admin.ran = Middleware

\* A request with the role of an admin and another token than the valid one
\* has been answered 401 by RequireAuth, and nothing ran after it.
C30_Witness ==
    /\ admin.pc = "done"
    /\ admin.use = Middleware
    /\ admin.authorization = "Bearer other"
    /\ admin.role = AdminRole
    /\ admin.status = StatusUnauthorized
    /\ admin.aborted
    /\ admin.ran = <<"RequireAuth">>

====
